---- MODULE Spec2Model ----
(***************************************************************************)
(* A model of src/EthereumExplorer.js: the EthereumExplorer class, a thin  *)
(* session object over web3.  The variables are the fields the constructor *)
(* sets (lines 9-19), the asynchronous calls that are suspended at an      *)
(* await, the transactions handed to the transport, and history variables  *)
(* that record what each call was given, what it asked of the transport    *)
(* and what it returned.                                                   *)
(*                                                                         *)
(* JavaScript values are tagged records, so that null, undefined, false,   *)
(* a number and a pending-or-settled promise are all different values.     *)
(***************************************************************************)
EXTENDS Integers, Sequences, FiniteSets, TLC

VARIABLES
    web3,            \* this.web3: Null until bootWeb3 stores a handle
    contracts,       \* this.contracts: name -> callable or Undefined
    contractDetails, \* this.contractDetails: name -> details or Undefined
    defaultOptions,  \* this.defaultOptions: [gasLimit, gasPrice]
    userAccount,     \* this.userAccount
    callbacks,       \* this.callbacks: event name -> callback or Undefined
    tasks,           \* the async calls suspended at an await
    txs,             \* the transactions handed to the transport (PromiEvents)
    done,            \* history: the call that returned or threw last
    lastLoad,        \* history: name -> the arguments of the latest loadContact
    fired,           \* history: the event fired last, by the transport or a caller
    invoked,         \* history: the callback invocation made last, and their number
    chained          \* history: submission -> the callbacks chained on its handle

vars == <<web3, contracts, contractDetails, defaultOptions, userAccount,
          callbacks, tasks, txs, done, lastLoad, fired, invoked, chained>>

session == <<web3, contracts, contractDetails, defaultOptions, userAccount, callbacks>>

(***************************************************************************)
(* Bounds of the model.                                                    *)
(***************************************************************************)
MaxTasks == 2
MaxTx == 2
MaxEmit == 1

(***************************************************************************)
(* JavaScript values.                                                      *)
(***************************************************************************)
Undefined == [t |-> "undefined"]
Null == [t |-> "null"]
JBool(b) == [t |-> "boolean", v |-> b]
JNum(n) == [t |-> "number", v |-> n]
JStr(s) == [t |-> "string", v |-> s]
JArr(s) == [t |-> "array", v |-> s]
JObj(s) == [t |-> "object", v |-> s]
JFun(f) == [t |-> "function", v |-> f]
JErr(e) == [t |-> "error", v |-> e]

\* ToBoolean: what `if (x)`, `! x`, `x && y` and `x || y` test.
Truthy(x) ==
    CASE x.t = "undefined" -> FALSE
      [] x.t = "null" -> FALSE
      [] x.t = "boolean" -> x.v
      [] x.t = "number" -> x.v # 0
      [] x.t = "string" -> x.v # ""
      [] OTHER -> TRUE

JsAnd(a, b) == IF Truthy(a) THEN b ELSE a
JsOr(a, b) == IF Truthy(a) THEN a ELSE b

\* typeof x
TypeOf(x) ==
    CASE x.t \in {"null", "array", "object", "promise"} -> "object"
      [] OTHER -> x.t

\* A field an object does not have; the explorer itself, as a returned value.
Absent == [t |-> "absent"]
This == JObj("this")

TypeError == JErr("TypeError")
NoError == Undefined

(***************************************************************************)
(* The inputs the operations are called with.                              *)
(***************************************************************************)
Names == {"default", "Users"}
Addresses == {"0xABC", "0xDEF"}

AbiEntry(ty, name, mut) == [type |-> ty, name |-> name, stateMutability |-> mut]

\* getUser/updateUser as in the README; deposit is overloaded with two
\* mutabilities; Updated is an event entry, which declares no stateMutability.
AbiUsers ==
    JArr(<< AbiEntry("function", "getUser", JStr("view")),
            AbiEntry("function", "updateUser", JStr("nonpayable")),
            AbiEntry("function", "deposit", JStr("payable")),
            AbiEntry("function", "deposit", JStr("nonpayable")),
            AbiEntry("event", "Updated", Undefined) >>)

AbiToken ==
    JArr(<< AbiEntry("function", "getUser", JStr("pure")),
            AbiEntry("function", "updateUser", JStr("payable")) >>)

Abis == {AbiUsers, AbiToken, Null}
MethodNames == {"getUser", "updateUser", "deposit", "Updated", "missing"}
Mutabilities == {"view", "pure", "payable", "nonpayable"}

\* The values call() is given as param: null, arrays, scalars, a keyed
\* structure (a plain object) and undefined (the argument left out).
Params ==
    { Null, Undefined, JArr(<<>>), JArr(<<"a", "b">>), JArr(<<"341">>),
      JStr("x"), JNum(0), JNum(7), JObj("{id: 1}") }

WindowKinds == {"ethereum", "web3", "none"}

\* The lifecycle events of a transaction, and the caller's callbacks.
Events == {"transactionHash", "receipt", "error"}
Callbacks == {JFun(1), JFun(2)}
TaskIds == 1 .. MaxTasks

(***************************************************************************)
(* Calls: a suspended call is a task; a call that has returned or thrown   *)
(* is recorded in done.                                                    *)
(***************************************************************************)
Idle == [op |-> "idle"]

NoFired == [src |-> -1, event |-> "", data |-> Undefined, cbAt |-> Undefined,
            chainedAt |-> Undefined]

Task(op, pc, in, reqs, obs, loc) ==
    [op |-> op, pc |-> pc, in |-> in, reqs |-> reqs, obs |-> obs, loc |-> loc]

Done(op, in, err, ret, reqs, obs) ==
    [op |-> op, in |-> in, err |-> err, ret |-> ret, reqs |-> reqs, obs |-> obs]

FreeTasks == {t \in TaskIds : tasks[t] = Idle}

\* A new call takes the lowest free slot when it suspends; a call that returns
\* or throws before its first await needs none.
IsFree(t) == t \in FreeTasks /\ \A u \in FreeTasks : t <= u

Slot(t) == IF FreeTasks = {} THEN t = 1 ELSE IsFree(t)

Running(t, op, pc) == tasks[t] # Idle /\ tasks[t].op = op /\ tasks[t].pc = pc

(***************************************************************************)
(* constructor()                                                           *)
(***************************************************************************)
Init ==
    /\ web3 = Null
    /\ contracts = [n \in Names |-> Undefined]
    /\ contractDetails = [n \in Names |-> Undefined]
    /\ defaultOptions = [gasLimit |-> Null, gasPrice |-> Null]
    /\ userAccount = Null
    /\ callbacks = [e \in Events |-> Undefined]
    /\ tasks = [t \in TaskIds |-> Idle]
    /\ txs = <<>>
    /\ done = Done("none", Undefined, NoError, Undefined, <<>>, Undefined)
    /\ lastLoad = [n \in Names |-> Undefined]
    /\ fired = NoFired
    /\ invoked = [cb |-> Undefined, data |-> Undefined, n |-> 0]
    /\ chained = <<>>

(***************************************************************************)
(* bootWeb3()                                                              *)
(***************************************************************************)
Web3(provider) == [t |-> "web3", provider |-> provider]

\* window.ethereum is present: the call suspends at the authorization request.
\* Otherwise the provider is picked and the handle stored without suspending.
bootWeb3(t, window) ==
    /\ Slot(t)
    /\ IF window = "ethereum"
       THEN /\ IsFree(t)
            /\ tasks' = [tasks EXCEPT ![t] =
                   Task("bootWeb3", "requestAccounts", [window |-> window],
                        <<"eth_requestAccounts">>, Undefined, Undefined)]
            /\ UNCHANGED <<web3, done>>
       ELSE /\ web3' = Web3(IF window = "web3" THEN "currentProvider"
                                               ELSE "http://localhost:7545")
            /\ done' = Done("bootWeb3", [window |-> window], NoError, Undefined,
                            <<>>, Undefined)
            /\ UNCHANGED tasks
    /\ UNCHANGED <<contracts, contractDetails, defaultOptions, userAccount,
                   callbacks, txs, lastLoad, fired, invoked, chained>>

\* With the handle stored whatever the wallet answers.
bootWeb3ResumeStoresAnyway(t, granted) ==
    /\ Running(t, "bootWeb3", "requestAccounts")
    /\ web3' = Web3("ethereum")
    /\ done' = Done("bootWeb3", tasks[t].in,
                    IF granted THEN NoError ELSE JErr("UserRejectedRequest"),
                    Undefined, tasks[t].reqs, Undefined)
    /\ tasks' = [tasks EXCEPT ![t] = Idle]
    /\ UNCHANGED <<contracts, contractDetails, defaultOptions, userAccount,
                   callbacks, txs, lastLoad, fired, invoked, chained>>

\* The wallet answers the authorization request: granted or denied.
bootWeb3Resume(t, granted) ==
    /\ Running(t, "bootWeb3", "requestAccounts")
    /\ IF granted
       THEN /\ web3' = Web3("ethereum")
            /\ done' = Done("bootWeb3", tasks[t].in, NoError, Undefined,
                            tasks[t].reqs, Undefined)
       ELSE /\ web3' = web3
            /\ done' = Done("bootWeb3", tasks[t].in, JErr("UserRejectedRequest"),
                            Undefined, tasks[t].reqs, Undefined)
    /\ tasks' = [tasks EXCEPT ![t] = Idle]
    /\ UNCHANGED <<contracts, contractDetails, defaultOptions, userAccount,
                   callbacks, txs, lastLoad, fired, invoked, chained>>

(***************************************************************************)
(* loadContact, contract, contractDetail                                   *)
(***************************************************************************)
Detail(address, abi, name) ==
    [t |-> "object", address |-> address, abi |-> abi, contractName |-> name]

\* new this.web3.eth.Contract(abi, address): the callable the transport builds.
NewContract(abi, address) == [t |-> "contract", abi |-> abi, address |-> address]

\* The constructor of web3's Contract refuses an ABI that is not an array.
ContractThrows(abi) == abi.t # "array"

contract(name) == contracts[name]

contractDetail(name) == contractDetails[name]

\* Lines 76-79 store the details; line 81 then reads this.web3.eth, which
\* throws on a null handle, as does the constructor on a bad ABI: the details
\* are stored by then and the callable is not.
loadContact(address, abi, name) ==
    /\ contractDetails' = [contractDetails EXCEPT ![name] = Detail(address, abi, name)]
    /\ IF web3 = Null \/ ContractThrows(abi)
       THEN /\ contracts' = contracts
            /\ done' = Done("loadContact", [address |-> address, abi |-> abi, name |-> name],
                            IF web3 = Null THEN TypeError ELSE JErr("ContractMissingABIError"),
                            Undefined, <<>>, Undefined)
       ELSE /\ contracts' = [contracts EXCEPT ![name] = NewContract(abi, address)]
            /\ done' = Done("loadContact", [address |-> address, abi |-> abi, name |-> name],
                            NoError, Undefined, <<>>, Undefined)
    /\ lastLoad' = [lastLoad EXCEPT ![name] = [address |-> address, abi |-> abi]]
    /\ UNCHANGED <<web3, defaultOptions, userAccount, callbacks, tasks, txs,
                   fired, invoked, chained>>

(***************************************************************************)
(* methodTypeIs and the predicates derived from it                         *)
(***************************************************************************)
\* abi.filter(item => item.name == method)
filterByName(abi, method) == SelectSeq(abi.v, LAMBDA item : item.name = method)

\* With the last entry named method read instead of the first.
methodTypeIsLastMatch(type, method, name) ==
    IF Truthy(contractDetail(name)) /\ Truthy(contractDetail(name).abi)
    THEN LET fnc == filterByName(contractDetail(name).abi, method)
         IN  IF Len(fnc) = 0 THEN Null
             ELSE JsAnd(fnc[Len(fnc)].stateMutability,
                        JBool(fnc[Len(fnc)].stateMutability = JStr(type)))
    ELSE Null

methodTypeIs(type, method, name) ==
    IF Truthy(contractDetail(name)) /\ Truthy(contractDetail(name).abi)
    THEN LET fnc == filterByName(contractDetail(name).abi, method)
         IN  IF Len(fnc) = 0 THEN Null
             ELSE JsAnd(fnc[1].stateMutability,
                        JBool(fnc[1].stateMutability = JStr(type)))
    ELSE Null

methodIsViewOrPure(method, name) ==
    JsOr(methodTypeIs("view", method, name), methodTypeIs("pure", method, name))

methodIsPayable(method, name) == methodTypeIs("payable", method, name)

methodIsNonPayable(method, name) == methodTypeIs("nonpayable", method, name)

\* A caller asks one of the four questions; the answer is recorded.
Introspect(kind, type, method, name) ==
    /\ done' = Done(kind, [type |-> type, method |-> method, name |-> name], NoError,
                    CASE kind = "methodTypeIs" -> methodTypeIs(type, method, name)
                      [] kind = "methodIsViewOrPure" -> methodIsViewOrPure(method, name)
                      [] kind = "methodIsPayable" -> methodIsPayable(method, name)
                      [] kind = "methodIsNonPayable" -> methodIsNonPayable(method, name),
                    <<>>, Undefined)
    /\ UNCHANGED <<web3, contracts, contractDetails, defaultOptions, userAccount,
                   callbacks, tasks, txs, lastLoad, fired, invoked, chained>>

(***************************************************************************)
(* call                                                                    *)
(***************************************************************************)
\* contract.methods[m]: web3 builds one for every function entry of the ABI.
HasMethod(c, m) ==
    \E i \in 1 .. Len(c.abi.v) : c.abi.v[i].type = "function" /\ c.abi.v[i].name = m

\* What the underlying contract call can come back with.
CallOutcomes == { [err |-> NoError, ret |-> JStr("decoded")],
                  [err |-> JErr("revert"), ret |-> Undefined] }

\* The arguments call() hands to the contract method: [ok, args].  The spread
\* of line 116 needs an iterable, which a plain object is not.
callArguments(param) ==
    IF param = Null THEN [ok |-> TRUE, args |-> <<>>]
    ELSE IF TypeOf(param) = "object"
         THEN IF param.t = "array" THEN [ok |-> TRUE, args |-> param.v]
                                   ELSE [ok |-> FALSE, args |-> <<>>]
         ELSE [ok |-> TRUE, args |-> <<param>>]

\* obs records the callable the name had, whether its method was invoked, and
\* if so with what arguments and to what outcome.
call(method, param, name, outcome) ==
    /\ LET c == contracts[name]
           a == callArguments(param)
           in == [method |-> method, param |-> param, name |-> name]
       IN  IF ~Truthy(c) \/ ~HasMethod(c, method) \/ ~a.ok
           THEN done' = Done("call", in, TypeError, Undefined, <<>>,
                             [callable |-> c, invoked |-> FALSE, args |-> <<>>,
                              outcome |-> Undefined])
           ELSE done' = Done("call", in, outcome.err, outcome.ret, <<"call">>,
                             [callable |-> c, invoked |-> TRUE, args |-> a.args,
                              outcome |-> outcome])
    /\ UNCHANGED <<web3, contracts, contractDetails, defaultOptions, userAccount,
                   callbacks, tasks, txs, lastLoad, fired, invoked, chained>>

(***************************************************************************)
(* getGasLimit, getGasPrice                                                *)
(*                                                                         *)
(* Both are also run inside getTransactionData, so each is written as what *)
(* it does up to its first await and what it does when the await returns.  *)
(* A result is [kind, val, dopts, reqs]: kind "return" or "throw" with the *)
(* value, or "await"; dopts is this.defaultOptions afterwards; reqs the    *)
(* transport requests issued.                                              *)
(***************************************************************************)
Result(kind, val, dopts, reqs) == [kind |-> kind, val |-> val, dopts |-> dopts, reqs |-> reqs]

\* What the transport answers to getBlock('latest'): a block, null, a failure.
Block(gasLimit) == [t |-> "object", gasLimit |-> gasLimit]
BlockOutcomes ==
    { [err |-> NoError, block |-> Block(JNum(21000))],
      [err |-> NoError, block |-> Block(JNum(30000))],
      [err |-> NoError, block |-> Null],
      [err |-> JErr("rpc"), block |-> Undefined] }

\* web3.eth.getGasPrice() returns a promise; the record says how it settles.
JPromise(st, v) == [t |-> "promise", st |-> st, v |-> v]
GasPricePromises ==
    { JPromise("fulfilled", JStr("1000")),
      JPromise("fulfilled", JStr("2000")),
      JPromise("rejected", JErr("rpc")) }

\* With the cached value returned whatever fromCache is.
getGasLimitBeginAlwaysCached(dopts, fromCache, w3) ==
    IF Truthy(dopts.gasLimit)
    THEN Result("return", dopts.gasLimit, dopts, <<>>)
    ELSE IF w3 = Null THEN Result("throw", TypeError, dopts, <<>>)
         ELSE Result("await", Undefined, dopts, <<"getBlock">>)

\* Lines 262-264, up to the await of getBlock (which reads this.web3.eth).
getGasLimitBegin(dopts, fromCache, w3) ==
    IF Truthy(JsAnd(dopts.gasLimit, JBool(fromCache)))
    THEN Result("return", dopts.gasLimit, dopts, <<>>)
    ELSE IF w3 = Null THEN Result("throw", TypeError, dopts, <<>>)
         ELSE Result("await", Undefined, dopts, <<"getBlock">>)

\* Lines 264-271, from the await on.
getGasLimitEnd(dopts, outcome) ==
    IF outcome.err # NoError
    THEN Result("throw", outcome.err, dopts, <<>>)
    ELSE IF Truthy(outcome.block)
         THEN Result("return", outcome.block.gasLimit,
                     [dopts EXCEPT !.gasLimit = outcome.block.gasLimit], <<>>)
         ELSE Result("return", Null, dopts, <<>>)

\* Lines 282-291: nothing is awaited; price is what web3.eth.getGasPrice()
\* returns, and that is what is stored and returned.
getGasPriceBody(dopts, fromCache, w3, price) ==
    IF Truthy(JsAnd(dopts.gasPrice, JBool(fromCache)))
    THEN Result("return", dopts.gasPrice, dopts, <<>>)
    ELSE IF w3 = Null THEN Result("throw", TypeError, dopts, <<>>)
         ELSE IF Truthy(price)
              THEN Result("return", price, [dopts EXCEPT !.gasPrice = price],
                          <<"getGasPrice">>)
              ELSE Result("return", Null, dopts, <<"getGasPrice">>)

getGasLimit(t, fromCache) ==
    /\ Slot(t)
    /\ LET r == getGasLimitBegin(defaultOptions, fromCache, web3)
           in == [fromCache |-> fromCache]
       IN  IF r.kind = "await"
           THEN /\ IsFree(t)
                /\ tasks' = [tasks EXCEPT ![t] =
                       Task("getGasLimit", "getBlock", in, r.reqs, Undefined, Undefined)]
                /\ done' = done
           ELSE /\ tasks' = tasks
                /\ done' = Done("getGasLimit", in,
                                IF r.kind = "throw" THEN r.val ELSE NoError,
                                IF r.kind = "throw" THEN Undefined ELSE r.val,
                                r.reqs, Undefined)
    /\ UNCHANGED <<web3, contracts, contractDetails, defaultOptions, userAccount,
                   callbacks, txs, lastLoad, fired, invoked, chained>>

getGasLimitResume(t, outcome) ==
    /\ Running(t, "getGasLimit", "getBlock")
    /\ LET r == getGasLimitEnd(defaultOptions, outcome)
       IN  /\ defaultOptions' = r.dopts
           /\ done' = Done("getGasLimit", tasks[t].in,
                           IF r.kind = "throw" THEN r.val ELSE NoError,
                           IF r.kind = "throw" THEN Undefined ELSE r.val,
                           tasks[t].reqs,
                           [block |-> outcome.block, post |-> r.dopts])
    /\ tasks' = [tasks EXCEPT ![t] = Idle]
    /\ UNCHANGED <<web3, contracts, contractDetails, userAccount, callbacks, txs,
                   lastLoad, fired, invoked, chained>>

\* The async function returns a promise (the cached one or the new one), so
\* the call completes when that promise settles.
getGasPrice(t, fromCache, price) ==
    /\ Slot(t)
    /\ LET r == getGasPriceBody(defaultOptions, fromCache, web3, price)
           in == [fromCache |-> fromCache]
       IN  /\ defaultOptions' = r.dopts
           /\ IF r.kind = "return" /\ r.val.t = "promise"
              THEN /\ IsFree(t)
                   /\ tasks' = [tasks EXCEPT ![t] =
                          Task("getGasPrice", "settle", in, r.reqs, Undefined, r.val)]
                   /\ done' = done
              ELSE /\ tasks' = tasks
                   /\ done' = Done("getGasPrice", in,
                                   IF r.kind = "throw" THEN r.val ELSE NoError,
                                   IF r.kind = "throw" THEN Undefined ELSE r.val,
                                   r.reqs, Undefined)
    /\ UNCHANGED <<web3, contracts, contractDetails, userAccount, callbacks, txs,
                   lastLoad, fired, invoked, chained>>

getGasPriceResume(t) ==
    /\ Running(t, "getGasPrice", "settle")
    /\ LET p == tasks[t].loc
       IN  done' = Done("getGasPrice", tasks[t].in,
                        IF p.st = "rejected" THEN p.v ELSE NoError,
                        IF p.st = "rejected" THEN Undefined ELSE p.v,
                        tasks[t].reqs,
                        [promise |-> p, post |-> defaultOptions])
    /\ tasks' = [tasks EXCEPT ![t] = Idle]
    /\ UNCHANGED <<web3, contracts, contractDetails, defaultOptions, userAccount,
                   callbacks, txs, lastLoad, fired, invoked, chained>>

(***************************************************************************)
(* on, emit                                                                *)
(***************************************************************************)
\* With the latest registration winning.
onCallbacksOverwrite(cbs, eventName, callback) == [cbs EXCEPT ![eventName] = callback]

\* this.callbacks after on(eventName, callback).
onCallbacks(cbs, eventName, callback) ==
    IF ~Truthy(cbs[eventName]) THEN [cbs EXCEPT ![eventName] = callback] ELSE cbs

\* emit(eventName, data): the callback registered under eventName, if any,
\* runs with data; a callback records that it ran, and with what.
emitInvoked(cbs, inv, eventName, data) ==
    IF Truthy(cbs[eventName])
    THEN [cb |-> cbs[eventName], data |-> data, n |-> inv.n + 1]
    ELSE inv

\* With an event that found no callback replayed to the callback registered
\* for it afterwards.
onReplays(eventName, callback, handle) ==
    /\ handle \in 0 .. Len(txs)
    /\ handle > 0 => chained[handle][eventName] = Undefined
    /\ callbacks' = onCallbacks(callbacks, eventName, callback)
    /\ chained' = IF handle > 0
                  THEN [chained EXCEPT ![handle][eventName] = callback]
                  ELSE chained
    /\ done' = Done("on", [eventName |-> eventName, callback |-> callback,
                           handle |-> handle], NoError, This, <<>>, Undefined)
    /\ invoked' = IF fired.event = eventName /\ fired.cbAt = Undefined
                  THEN [cb |-> callback, data |-> fired.data, n |-> invoked.n + 1]
                  ELSE invoked
    /\ UNCHANGED <<web3, contracts, contractDetails, defaultOptions, userAccount,
                   tasks, txs, lastLoad, fired>>

\* on(eventName, callback), called on the explorer (handle = 0) or chained on
\* the handle that submission number `handle` returned, which is the explorer
\* too.  A caller chains one callback per event on a handle.
on(eventName, callback, handle) ==
    /\ handle \in 0 .. Len(txs)
    /\ handle > 0 => chained[handle][eventName] = Undefined
    /\ callbacks' = onCallbacks(callbacks, eventName, callback)
    /\ chained' = IF handle > 0
                  THEN [chained EXCEPT ![handle][eventName] = callback]
                  ELSE chained
    /\ done' = Done("on", [eventName |-> eventName, callback |-> callback,
                           handle |-> handle], NoError, This, <<>>, Undefined)
    /\ UNCHANGED <<web3, contracts, contractDetails, defaultOptions, userAccount,
                   tasks, txs, lastLoad, fired, invoked>>

\* emit(eventName, data) called by the caller itself, who stops once MaxEmit
\* callbacks have run.
emit(eventName, data) ==
    /\ invoked.n < MaxEmit
    /\ invoked' = emitInvoked(callbacks, invoked, eventName, data)
    /\ fired' = [src |-> 0, event |-> eventName, data |-> data,
                 cbAt |-> callbacks[eventName], chainedAt |-> Undefined]
    /\ UNCHANGED <<web3, contracts, contractDetails, defaultOptions, userAccount,
                   callbacks, tasks, txs, done, lastLoad, chained>>

(***************************************************************************)
(* sendTxToSmartContract and getTransactionData                            *)
(*                                                                         *)
(* The call suspends at up to four awaits: the nonce query, the gas-price  *)
(* promise, the latest-block query and the signing.  Each stage below is   *)
(* the code from one await to the next, given the task k (inputs, requests *)
(* issued, the transaction built so far); it yields what the call does     *)
(* next: throw, await, or broadcast.                                       *)
(***************************************************************************)
SendOp == "sendTxToSmartContract"

Options(nonce, gasPrice, gasLimit, value) ==
    [nonce |-> nonce, gasPrice |-> gasPrice, gasLimit |-> gasLimit, value |-> value]

NoOptions == Options(Undefined, Undefined, Undefined, Undefined)

OptionSets ==
    { NoOptions,
      Options(JNum(0), Undefined, Undefined, Undefined),
      Options(JNum(7), JNum(3), JNum(4), Undefined),
      Options(Undefined, JNum(3), Undefined, JNum(10)),
      Options(Undefined, Undefined, JNum(4), JNum(0)) }

PrivateKeys == {Null, JStr("3eadd2")}
Wallets == {"0x8aD7"}
ContractData == {<<"John", "Doe">>}

\* The pending nonce the transport answers with, or a failure.
NonceOutcomes ==
    { [err |-> NoError, val |-> JNum(0)],
      [err |-> NoError, val |-> JNum(5)],
      [err |-> JErr("rpc"), val |-> Undefined] }

\* signTransaction: the signed transaction, or a failure (a malformed key).
SignOutcomes == {NoError, JErr("sign")}

Stage(kind, k, val, dopts) == [kind |-> kind, k |-> k, val |-> val, dopts |-> dopts]

WithTx(k, field, v) == [k EXCEPT !.loc.tx = [k.loc.tx EXCEPT ![field] = v]]
WithReqs(k, reqs) == [k EXCEPT !.reqs = k.reqs \o reqs]
AtPc(k, pc) == [k EXCEPT !.pc = pc]

\* contract.methods[fnc](...data).encodeABI()
encodeABI(fnc, data) == [t |-> "string", v |-> "0xcalldata", fnc |-> fnc, args |-> data]

\* With no listener for the receipt.
attachListenersNoReceipt == [e \in {"transactionHash", "error"} |-> e]

\* The three listeners of lines 221-223 and 230-232: the event listened for
\* |-> the event name handed to this.emit.
attachListeners == [e \in Events |-> e]

\* With the transaction handed to the provider whether or not a key is given.
finishStageProviderOnly(k, dopts, w3, ctrs) ==
    LET o == k.in.options
        k1 == IF Truthy(o.value) THEN WithTx(k, "value", o.value) ELSE k
        c == ctrs[k.in.name]
    IN  IF ~Truthy(c) \/ ~HasMethod(c, k.in.fnc)
        THEN Stage("throw", k1, TypeError, dopts)
        ELSE Stage("broadcast", WithReqs(k1, <<"send">>), "provider", dopts)

\* Lines 209-234, once the base fields are there.
finishStage(k, dopts, w3, ctrs) ==
    LET o == k.in.options
        k1 == IF Truthy(o.value) THEN WithTx(k, "value", o.value) ELSE k
        c == ctrs[k.in.name]
    IN  IF ~Truthy(c) \/ ~HasMethod(c, k.in.fnc)
        THEN Stage("throw", k1, TypeError, dopts)
        ELSE IF Truthy(k.in.key)
             THEN LET data == encodeABI(k.in.fnc, k.in.data)
                      k2 == WithReqs(IF Truthy(data) THEN WithTx(k1, "data", data) ELSE k1,
                                     <<"encodeABI">>)
                  IN  IF w3 = Null
                      THEN Stage("throw", k2, TypeError, dopts)
                      ELSE Stage("await",
                                 AtPc(WithReqs(k2, <<"signTransaction">>), "signTransaction"),
                                 Undefined, dopts)
             ELSE Stage("broadcast", WithReqs(k1, <<"send">>), "provider", dopts)

\* With the cached defaults used.
getTransactionDataUsesCache == TRUE

\* The argument of getGasPrice and getGasLimit in lines 249-250.
getTransactionDataFromCache == FALSE

\* Line 250.
gasLimitStage(k, dopts, w3, ctrs) ==
    LET o == k.in.options
    IN  IF Truthy(o.gasLimit)
        THEN finishStage(WithTx(k, "gasLimit", o.gasLimit), dopts, w3, ctrs)
        ELSE LET r == getGasLimitBegin(dopts, getTransactionDataFromCache, w3)
             IN  CASE r.kind = "return" ->
                        finishStage(WithTx(k, "gasLimit", r.val), dopts, w3, ctrs)
                   [] r.kind = "throw" -> Stage("throw", k, r.val, dopts)
                   [] r.kind = "await" ->
                        Stage("await", AtPc(WithReqs(k, r.reqs), "getBlock"),
                              Undefined, dopts)

\* Line 249: getGasPrice returns a promise, which the await then waits for.
gasPriceStage(k, dopts, w3, ctrs, price) ==
    LET o == k.in.options
    IN  IF Truthy(o.gasPrice)
        THEN gasLimitStage(WithTx(k, "gasPrice", o.gasPrice), dopts, w3, ctrs)
        ELSE LET r == getGasPriceBody(dopts, getTransactionDataFromCache, w3, price)
                 k1 == WithReqs(k, r.reqs)
             IN  CASE r.kind = "throw" -> Stage("throw", k1, r.val, r.dopts)
                   [] r.kind = "return" /\ r.val.t = "promise" ->
                        Stage("await", AtPc([k1 EXCEPT !.loc.p = r.val], "gasPrice"),
                              Undefined, r.dopts)
                   [] OTHER ->
                        gasLimitStage(WithTx(k1, "gasPrice", r.val), r.dopts, w3, ctrs)

\* Line 248.
nonceStage(k, dopts, w3, ctrs, price) ==
    LET o == k.in.options
    IN  IF Truthy(o.nonce)
        THEN gasPriceStage(WithTx(k, "nonce", o.nonce), dopts, w3, ctrs, price)
        ELSE IF w3 = Null
             THEN Stage("throw", k, TypeError, dopts)
             ELSE Stage("await",
                        AtPc(WithReqs(k, <<"getTransactionCount">>), "getTransactionCount"),
                        Undefined, dopts)

\* A transaction handed to the transport, with the listeners attached to it.
NewTx(k, path) == [path |-> path, listeners |-> attachListeners, st |-> "sent"]

\* What a stage's outcome does to the state; fresh: the call has not
\* suspended yet and holds no task slot.
Apply(t, r, fresh) ==
    /\ defaultOptions' = r.dopts
    /\ CASE r.kind = "throw" ->
              /\ done' = Done(SendOp, r.k.in, r.val, Undefined, r.k.reqs, r.k.obs)
              /\ tasks' = IF fresh THEN tasks ELSE [tasks EXCEPT ![t] = Idle]
              /\ UNCHANGED <<txs, chained>>
         [] r.kind = "await" ->
              /\ fresh => IsFree(t)
              /\ tasks' = [tasks EXCEPT ![t] = r.k]
              /\ UNCHANGED <<done, txs, chained>>
         [] r.kind = "broadcast" ->
              /\ txs' = Append(txs, NewTx(r.k, r.val))
              /\ chained' = Append(chained, [e \in Events |-> Undefined])
              /\ done' = Done(SendOp, r.k.in, NoError, This, r.k.reqs,
                              [cached |-> r.k.obs.cached, handle |-> Len(txs) + 1,
                               tx |-> r.k.loc.tx, path |-> r.val])
              /\ tasks' = IF fresh THEN tasks ELSE [tasks EXCEPT ![t] = Idle]

\* Which of the two defaults are cached when the call is made.
CachedObs ==
    [cached |-> [gasPrice |-> Truthy(defaultOptions.gasPrice),
                 gasLimit |-> Truthy(defaultOptions.gasLimit)]]

Submissions ==
    Len(txs) + Cardinality({t \in TaskIds : tasks[t] # Idle /\ tasks[t].op = SendOp})

\* Without the registration check of lines 197-199.
sendTxToSmartContractUnchecked(t, from, key, fnc, data, options, name, price) ==
    /\ Slot(t)
    /\ Submissions < MaxTx
    /\ LET in == [from |-> from, key |-> key, fnc |-> fnc, data |-> data,
                  options |-> options, name |-> name]
           to == IF Truthy(contractDetail(name)) THEN contractDetail(name).address
                                                 ELSE Undefined
           k == Task(SendOp, "start", in, <<>>, CachedObs,
                     [tx |-> [from |-> from, to |-> to, nonce |-> Absent,
                              gasPrice |-> Absent, gasLimit |-> Absent,
                              value |-> Absent, data |-> Absent],
                      p |-> Undefined])
       IN  Apply(t, nonceStage(k, defaultOptions, web3, contracts, price), TRUE)
    /\ UNCHANGED <<web3, contracts, contractDetails, userAccount, callbacks,
                   lastLoad, fired, invoked>>

\* Lines 195-206: the registration check, then getTransactionData up to its
\* first await.
sendTxToSmartContract(t, from, key, fnc, data, options, name, price) ==
    /\ Slot(t)
    /\ Submissions < MaxTx
    /\ LET in == [from |-> from, key |-> key, fnc |-> fnc, data |-> data,
                  options |-> options, name |-> name]
       IN  IF ~Truthy(contractDetail(name))
           THEN /\ done' = Done(SendOp, in, JStr("Contract address not found!"),
                                Undefined, <<>>, CachedObs)
                /\ UNCHANGED <<defaultOptions, tasks, txs, chained>>
           ELSE LET k == Task(SendOp, "start", in, <<>>, CachedObs,
                              [tx |-> [from |-> from,
                                       to |-> contractDetail(name).address,
                                       nonce |-> Absent, gasPrice |-> Absent,
                                       gasLimit |-> Absent, value |-> Absent,
                                       data |-> Absent],
                               p |-> Undefined])
                IN  Apply(t, nonceStage(k, defaultOptions, web3, contracts, price), TRUE)
    /\ UNCHANGED <<web3, contracts, contractDetails, userAccount, callbacks,
                   lastLoad, fired, invoked>>

\* The nonce query returns.
sendTxResumeNonce(t, outcome, price) ==
    /\ Running(t, SendOp, "getTransactionCount")
    /\ LET k == tasks[t]
       IN  IF outcome.err # NoError
           THEN Apply(t, Stage("throw", k, outcome.err, defaultOptions), FALSE)
           ELSE Apply(t, gasPriceStage(WithTx(k, "nonce",
                                              JsOr(k.in.options.nonce, outcome.val)),
                                       defaultOptions, web3, contracts, price), FALSE)
    /\ UNCHANGED <<web3, contracts, contractDetails, userAccount, callbacks,
                   lastLoad, fired, invoked>>

\* The gas-price promise settles.
sendTxResumeGasPrice(t) ==
    /\ Running(t, SendOp, "gasPrice")
    /\ LET k == tasks[t]
           p == k.loc.p
       IN  IF p.st = "rejected"
           THEN Apply(t, Stage("throw", k, p.v, defaultOptions), FALSE)
           ELSE Apply(t, gasLimitStage(WithTx(k, "gasPrice",
                                              JsOr(k.in.options.gasPrice, p.v)),
                                       defaultOptions, web3, contracts), FALSE)
    /\ UNCHANGED <<web3, contracts, contractDetails, userAccount, callbacks,
                   lastLoad, fired, invoked>>

\* The latest-block query returns: the rest of getGasLimit, then line 250 on.
sendTxResumeGetBlock(t, outcome) ==
    /\ Running(t, SendOp, "getBlock")
    /\ LET k == tasks[t]
           r == getGasLimitEnd(defaultOptions, outcome)
       IN  IF r.kind = "throw"
           THEN Apply(t, Stage("throw", k, r.val, r.dopts), FALSE)
           ELSE Apply(t, finishStage(WithTx(k, "gasLimit",
                                            JsOr(k.in.options.gasLimit, r.val)),
                                     r.dopts, web3, contracts), FALSE)
    /\ UNCHANGED <<web3, contracts, contractDetails, userAccount, callbacks,
                   lastLoad, fired, invoked>>

\* signTransaction returns: line 220 broadcasts the raw signed transaction.
sendTxResumeSign(t, outcome) ==
    /\ Running(t, SendOp, "signTransaction")
    /\ LET k == tasks[t]
       IN  IF outcome # NoError
           THEN Apply(t, Stage("throw", k, outcome, defaultOptions), FALSE)
           ELSE Apply(t, Stage("broadcast", WithReqs(k, <<"sendSignedTransaction">>),
                               "signed", defaultOptions), FALSE)
    /\ UNCHANGED <<web3, contracts, contractDetails, userAccount, callbacks,
                   lastLoad, fired, invoked>>

(***************************************************************************)
(* The transport delivers a lifecycle event of a submitted transaction:    *)
(* transactionHash, then receipt or error; or error at once.  A listener   *)
(* attached to the transaction runs and calls this.emit.                   *)
(***************************************************************************)
Payload(i, e) == [t |-> "object", event |-> e, tx |-> i]

CanDeliver(st, e) ==
    \/ st = "sent" /\ e \in {"transactionHash", "error"}
    \/ st = "transactionHash" /\ e \in {"receipt", "error"}

\* With a failure of the broadcast thrown by the call that submitted.
deliverThrows(i, e) ==
    /\ i \in 1 .. Len(txs)
    /\ CanDeliver(txs[i].st, e)
    /\ txs' = [txs EXCEPT ![i].st = e]
    /\ fired' = [src |-> i, event |-> e, data |-> Payload(i, e),
                 cbAt |-> callbacks[e], chainedAt |-> chained[i][e]]
    /\ invoked' = IF e \in DOMAIN txs[i].listeners
                  THEN emitInvoked(callbacks, invoked, txs[i].listeners[e], Payload(i, e))
                  ELSE invoked
    /\ done' = IF e = "error"
               THEN Done(SendOp, Undefined, Payload(i, e), Undefined, <<>>, Undefined)
               ELSE done
    /\ UNCHANGED <<web3, contracts, contractDetails, defaultOptions, userAccount,
                   callbacks, tasks, lastLoad, chained>>

deliver(i, e) ==
    /\ i \in 1 .. Len(txs)
    /\ CanDeliver(txs[i].st, e)
    /\ txs' = [txs EXCEPT ![i].st = e]
    /\ fired' = [src |-> i, event |-> e, data |-> Payload(i, e),
                 cbAt |-> callbacks[e], chainedAt |-> chained[i][e]]
    /\ invoked' = IF e \in DOMAIN txs[i].listeners
                  THEN emitInvoked(callbacks, invoked, txs[i].listeners[e], Payload(i, e))
                  ELSE invoked
    /\ UNCHANGED <<web3, contracts, contractDetails, defaultOptions, userAccount,
                   callbacks, tasks, done, lastLoad, chained>>

(***************************************************************************)
(* getNetworkId, loadContractFromJson                                      *)
(***************************************************************************)
\* A compiled artifact: an ABI and, per network id, the deployment.
Artifact(abi, networks) == [t |-> "object", abi |-> abi, networks |-> networks]

Deployment(address) == [t |-> "object", address |-> address]

Artifacts ==
    { Artifact(AbiUsers, [n \in {5777} |-> Deployment("0xABC")]),
      Artifact(AbiToken, [n \in {1, 5777} |->
                            Deployment(IF n = 1 THEN "0xDEF" ELSE "0xABC")]),
      Artifact(AbiUsers, [n \in {} |-> Deployment("0xABC")]) }

\* What the transport answers to net.getId(): a network id, or a failure.
NetIdOutcomes ==
    { [err |-> NoError, val |-> 1],
      [err |-> NoError, val |-> 5777],
      [err |-> NoError, val |-> 3],
      [err |-> JErr("rpc"), val |-> 0] }

\* The string thrown at line 60, which ends with the network id.
NetworkMismatch(netId) ==
    [t |-> "string",
     v |-> "The network ID does not exist in the JSON of the contract.",
     netId |-> netId]

\* With the deployment of some network of the artifact taken when the
\* current one has none.
networkEntryAnyNetwork(json, netId) ==
    IF netId \in DOMAIN json.networks THEN json.networks[netId]
    ELSE IF DOMAIN json.networks = {} THEN Undefined
         ELSE json.networks[CHOOSE n \in DOMAIN json.networks : TRUE]

\* contractJson.networks[netId]
networkEntry(json, netId) ==
    IF netId \in DOMAIN json.networks THEN json.networks[netId] ELSE Undefined

\* getNetworkId(): this.web3.eth throws on a null handle; otherwise the call
\* suspends at net.getId().
getNetworkId(t) ==
    /\ Slot(t)
    /\ IF web3 = Null
       THEN /\ done' = Done("getNetworkId", Undefined, TypeError, Undefined, <<>>, Undefined)
            /\ tasks' = tasks
       ELSE /\ IsFree(t)
            /\ tasks' = [tasks EXCEPT ![t] =
                   Task("getNetworkId", "getId", Undefined, <<"getId">>, Undefined, Undefined)]
            /\ done' = done
    /\ UNCHANGED <<web3, contracts, contractDetails, defaultOptions, userAccount,
                   callbacks, txs, lastLoad, fired, invoked, chained>>

getNetworkIdResume(t, outcome) ==
    /\ Running(t, "getNetworkId", "getId")
    /\ done' = Done("getNetworkId", Undefined, outcome.err,
                    IF outcome.err = NoError THEN JNum(outcome.val) ELSE Undefined,
                    tasks[t].reqs, Undefined)
    /\ tasks' = [tasks EXCEPT ![t] = Idle]
    /\ UNCHANGED <<web3, contracts, contractDetails, defaultOptions, userAccount,
                   callbacks, txs, lastLoad, fired, invoked, chained>>

\* Line 57: the call suspends in getNetworkId, which throws on a null handle.
loadContractFromJson(t, json, name) ==
    /\ Slot(t)
    /\ LET in == [json |-> json, name |-> name]
       IN  IF web3 = Null
           THEN /\ done' = Done("loadContractFromJson", in, TypeError, Undefined,
                                <<>>, Undefined)
                /\ tasks' = tasks
           ELSE /\ IsFree(t)
                /\ tasks' = [tasks EXCEPT ![t] =
                       Task("loadContractFromJson", "getId", in, <<"getId">>,
                            Undefined, Undefined)]
                /\ done' = done
    /\ UNCHANGED <<web3, contracts, contractDetails, defaultOptions, userAccount,
                   callbacks, txs, lastLoad, fired, invoked, chained>>

\* Lines 59-63, once the network id is known: the mismatch is thrown, or
\* loadContact runs with the deployment's address and the artifact's ABI.
loadContractFromJsonResume(t, outcome) ==
    /\ Running(t, "loadContractFromJson", "getId")
    /\ LET in == tasks[t].in
           entry == networkEntry(in.json, outcome.val)
       IN  IF outcome.err # NoError \/ ~Truthy(entry)
           THEN /\ done' = Done("loadContractFromJson", in,
                                IF outcome.err # NoError THEN outcome.err
                                ELSE NetworkMismatch(outcome.val),
                                Undefined, tasks[t].reqs, [netId |-> outcome.val])
                /\ UNCHANGED <<contracts, contractDetails, lastLoad>>
           ELSE /\ contractDetails' = [contractDetails EXCEPT ![in.name] =
                                          Detail(entry.address, in.json.abi, in.name)]
                /\ lastLoad' = [lastLoad EXCEPT ![in.name] =
                                   [address |-> entry.address, abi |-> in.json.abi]]
                /\ IF web3 = Null \/ ContractThrows(in.json.abi)
                   THEN /\ contracts' = contracts
                        /\ done' = Done("loadContractFromJson", in,
                                        IF web3 = Null THEN TypeError
                                        ELSE JErr("ContractMissingABIError"),
                                        Undefined, tasks[t].reqs, [netId |-> outcome.val])
                   ELSE /\ contracts' = [contracts EXCEPT ![in.name] =
                                            NewContract(in.json.abi, entry.address)]
                        /\ done' = Done("loadContractFromJson", in, NoError, Undefined,
                                        tasks[t].reqs, [netId |-> outcome.val])
    /\ tasks' = [tasks EXCEPT ![t] = Idle]
    /\ UNCHANGED <<web3, defaultOptions, userAccount, callbacks, txs, fired,
                   invoked, chained>>

(***************************************************************************)
(* getBlock, getBlockNumber, getUserAccount                                *)
(***************************************************************************)
\* What the transport answers to getBlockNumber() and to getAccounts().
BlockNumberOutcomes ==
    { [err |-> NoError, val |-> JNum(100)],
      [err |-> JErr("rpc"), val |-> Undefined] }

AccountsOutcomes ==
    { [err |-> NoError, val |-> <<JStr("0xA1"), JStr("0xB2")>>],
      [err |-> NoError, val |-> <<JStr("0xB2"), JStr("0xA1")>>],
      [err |-> NoError, val |-> <<>>],
      [err |-> JErr("rpc"), val |-> <<>>] }

BlockNumbers == {JStr("latest"), JNum(7)}

\* this.web3.eth throws on a null handle; otherwise the call suspends at the
\* transport's request and returns what that returns.
getBlock(t, blockNumber) ==
    /\ Slot(t)
    /\ LET in == [blockNumber |-> blockNumber]
       IN  IF web3 = Null
           THEN /\ done' = Done("getBlock", in, TypeError, Undefined, <<>>, Undefined)
                /\ tasks' = tasks
           ELSE /\ IsFree(t)
                /\ tasks' = [tasks EXCEPT ![t] =
                       Task("getBlock", "getBlock", in, <<"getBlock">>, Undefined, Undefined)]
                /\ done' = done
    /\ UNCHANGED <<web3, contracts, contractDetails, defaultOptions, userAccount,
                   callbacks, txs, lastLoad, fired, invoked, chained>>

getBlockResume(t, outcome) ==
    /\ Running(t, "getBlock", "getBlock")
    /\ done' = Done("getBlock", tasks[t].in, outcome.err, outcome.block,
                    tasks[t].reqs, Undefined)
    /\ tasks' = [tasks EXCEPT ![t] = Idle]
    /\ UNCHANGED <<web3, contracts, contractDetails, defaultOptions, userAccount,
                   callbacks, txs, lastLoad, fired, invoked, chained>>

getBlockNumber(t) ==
    /\ Slot(t)
    /\ IF web3 = Null
       THEN /\ done' = Done("getBlockNumber", Undefined, TypeError, Undefined, <<>>,
                            Undefined)
            /\ tasks' = tasks
       ELSE /\ IsFree(t)
            /\ tasks' = [tasks EXCEPT ![t] =
                   Task("getBlockNumber", "getBlockNumber", Undefined,
                        <<"getBlockNumber">>, Undefined, Undefined)]
            /\ done' = done
    /\ UNCHANGED <<web3, contracts, contractDetails, defaultOptions, userAccount,
                   callbacks, txs, lastLoad, fired, invoked, chained>>

getBlockNumberResume(t, outcome) ==
    /\ Running(t, "getBlockNumber", "getBlockNumber")
    /\ done' = Done("getBlockNumber", Undefined, outcome.err, outcome.val,
                    tasks[t].reqs, Undefined)
    /\ tasks' = [tasks EXCEPT ![t] = Idle]
    /\ UNCHANGED <<web3, contracts, contractDetails, defaultOptions, userAccount,
                   callbacks, txs, lastLoad, fired, invoked, chained>>

\* accounts[0]
firstAccount(accounts) == IF Len(accounts) = 0 THEN Undefined ELSE accounts[1]

\* Line 320: whether the call returns the cached account.
getUserAccountCached(account) == Truthy(account)

\* Lines 320-322, up to the await of getAccounts.
getUserAccount(t) ==
    /\ Slot(t)
    /\ IF getUserAccountCached(userAccount)
       THEN /\ done' = Done("getUserAccount", Undefined, NoError, userAccount, <<>>,
                            Undefined)
            /\ tasks' = tasks
       ELSE IF web3 = Null
            THEN /\ done' = Done("getUserAccount", Undefined, TypeError, Undefined,
                                 <<>>, Undefined)
                 /\ tasks' = tasks
            ELSE /\ IsFree(t)
                 /\ tasks' = [tasks EXCEPT ![t] =
                        Task("getUserAccount", "getAccounts", Undefined,
                             <<"getAccounts">>, Undefined, Undefined)]
                 /\ done' = done
    /\ UNCHANGED <<web3, contracts, contractDetails, defaultOptions, userAccount,
                   callbacks, txs, lastLoad, fired, invoked, chained>>

\* Lines 322-326, from the await on: the first account of the list is stored
\* and returned.  obs: the list, and the account cached when the query
\* returned.
getUserAccountResume(t, outcome) ==
    /\ Running(t, "getUserAccount", "getAccounts")
    /\ IF outcome.err # NoError
       THEN /\ userAccount' = userAccount
            /\ done' = Done("getUserAccount", Undefined, outcome.err, Undefined,
                            tasks[t].reqs, [accounts |-> outcome.val, was |-> userAccount])
       ELSE /\ userAccount' = firstAccount(outcome.val)
            /\ done' = Done("getUserAccount", Undefined, NoError,
                            firstAccount(outcome.val), tasks[t].reqs,
                            [accounts |-> outcome.val, was |-> userAccount])
    /\ tasks' = [tasks EXCEPT ![t] = Idle]
    /\ UNCHANGED <<web3, contracts, contractDetails, defaultOptions, callbacks, txs,
                   lastLoad, fired, invoked, chained>>

(***************************************************************************)
(* The specification: a caller and the transport take any of the steps.    *)
(***************************************************************************)
Boot ==
    \/ \E t \in TaskIds, w \in WindowKinds : bootWeb3(t, w)
    \/ \E t \in TaskIds, g \in BOOLEAN : bootWeb3Resume(t, g)

Register == \E a \in Addresses, abi \in Abis, n \in Names : loadContact(a, abi, n)

Ask ==
    \/ \E type \in Mutabilities, m \in MethodNames, n \in Names :
            Introspect("methodTypeIs", type, m, n)
    \/ \E kind \in {"methodIsViewOrPure", "methodIsPayable", "methodIsNonPayable"},
          m \in MethodNames, n \in Names :
            Introspect(kind, "", m, n)

Call ==
    \E m \in MethodNames, param \in Params, n \in Names, o \in CallOutcomes :
        call(m, param, n, o)

GasStart ==
    \/ \E t \in TaskIds, c \in BOOLEAN : getGasLimit(t, c)
    \/ \E t \in TaskIds, c \in BOOLEAN, p \in GasPricePromises : getGasPrice(t, c, p)

GasResume ==
    \/ \E t \in TaskIds, o \in BlockOutcomes : getGasLimitResume(t, o)
    \/ \E t \in TaskIds : getGasPriceResume(t)

Observe ==
    \/ \E e \in Events, cb \in Callbacks, h \in 0 .. MaxTx : on(e, cb, h)
    \/ \E e \in Events : emit(e, JStr("payload"))

SubmitStart ==
    \E t \in TaskIds, f \in Wallets, key \in PrivateKeys,
       m \in {"updateUser", "missing"}, d \in ContractData, o \in OptionSets,
       n \in Names, p \in GasPricePromises :
        sendTxToSmartContract(t, f, key, m, d, o, n, p)

SubmitResume ==
    \/ \E t \in TaskIds, o \in NonceOutcomes, p \in GasPricePromises :
            sendTxResumeNonce(t, o, p)
    \/ \E t \in TaskIds : sendTxResumeGasPrice(t)
    \/ \E t \in TaskIds, o \in BlockOutcomes : sendTxResumeGetBlock(t, o)
    \/ \E t \in TaskIds, o \in SignOutcomes : sendTxResumeSign(t, o)

Transport == \E i \in 1 .. MaxTx, e \in Events : deliver(i, e)

LoadArtifact ==
    \/ \E t \in TaskIds, j \in Artifacts, n \in Names : loadContractFromJson(t, j, n)
    \/ \E t \in TaskIds, o \in NetIdOutcomes : loadContractFromJsonResume(t, o)

Metadata ==
    \/ \E t \in TaskIds : getNetworkId(t)
    \/ \E t \in TaskIds, o \in NetIdOutcomes : getNetworkIdResume(t, o)
    \/ \E t \in TaskIds, b \in BlockNumbers : getBlock(t, b)
    \/ \E t \in TaskIds, o \in BlockOutcomes : getBlockResume(t, o)
    \/ \E t \in TaskIds : getBlockNumber(t)
    \/ \E t \in TaskIds, o \in BlockNumberOutcomes : getBlockNumberResume(t, o)

Account ==
    \/ \E t \in TaskIds : getUserAccount(t)
    \/ \E t \in TaskIds, o \in AccountsOutcomes : getUserAccountResume(t, o)

Next ==
    \/ Boot \/ Register \/ LoadArtifact \/ Ask \/ Call \/ Metadata \/ Account
    \/ GasStart \/ GasResume \/ Observe
    \/ SubmitStart \/ SubmitResume \/ Transport

Spec == Init /\ [][Next]_vars

(***************************************************************************)
(* Spec with the caller kept to the operations one group of properties is  *)
(* about; every behaviour of these is a behaviour of Spec.                 *)
(***************************************************************************)
\* No call is suspended: a caller that awaits each call before the next.
Quiet == \A t \in TaskIds : tasks[t] = Idle

BootFallback == \E t \in TaskIds : bootWeb3(t, "none")

RegisterUsers == loadContact("0xABC", AbiUsers, "Users")

\* The registry and what is asked of it.
NextRegistry == BootFallback \/ Register \/ Ask

SpecRegistry == Init /\ [][NextRegistry]_vars

\* Read-only invocations of the registered contracts.
NextCall == BootFallback \/ RegisterUsers \/ Call

SpecCall == Init /\ [][NextCall]_vars

\* The gas defaults, with calls overlapping.
NextGas == BootFallback \/ GasStart \/ GasResume

SpecGas == Init /\ [][NextGas]_vars

\* The fields of a submitted transaction, for a caller that awaits each call.
SubmitFields ==
    \E t \in TaskIds, key \in PrivateKeys, o \in OptionSets, n \in Names,
       p \in GasPricePromises :
        sendTxToSmartContract(t, "0x8aD7", key, "updateUser", <<"John", "Doe">>, o, n, p)

NextFields ==
    \/ Quiet /\ BootFallback
    \/ Quiet /\ RegisterUsers
    \/ Quiet /\ GasStart
    \/ Quiet /\ SubmitFields
    \/ GasResume
    \/ SubmitResume

SpecFields == Init /\ [][NextFields]_vars

\* Submissions for a name that may not be registered: "default" never is,
\* "Users" is once loadContact has run; the session has a gas cache, callbacks
\* and submitted transactions for the failing call to leave alone.  The
\* transport would answer a gas-price query with Price1000.
Price1000 == JPromise("fulfilled", JStr("1000"))

SubmitUnregistered ==
    \E t \in TaskIds, key \in PrivateKeys, o \in OptionSets :
        sendTxToSmartContract(t, "0x8aD7", key, "updateUser", <<"John", "Doe">>,
                              o, "default", Price1000)

SubmitUsers ==
    \E t \in TaskIds :
        sendTxToSmartContract(t, "0x8aD7", Null, "updateUser", <<"John", "Doe">>,
                              Options(JNum(7), JNum(3), JNum(4), Undefined), "Users",
                              Price1000)

NextUnregistered ==
    \/ BootFallback \/ RegisterUsers
    \/ Quiet /\ \E t \in TaskIds : getGasLimit(t, FALSE)
    \/ \E t \in TaskIds, o \in BlockOutcomes : getGasLimitResume(t, o)
    \/ \E e \in Events : on(e, JFun(1), 0)
    \/ SubmitUsers
    \/ SubmitUnregistered

SpecUnregistered == Init /\ [][NextUnregistered]_vars

\* The callback table alone.
NextObserver ==
    \/ \E e \in Events, cb \in Callbacks : on(e, cb, 0)
    \/ \E e \in Events : emit(e, JStr("payload"))

SpecObserver == Init /\ [][NextObserver]_vars

\* Submissions with every field supplied, on both signing paths, and the
\* lifecycle events of the submitted transactions.
FullOptions == Options(JNum(7), JNum(3), JNum(4), Undefined)

SubmitFull ==
    \E t \in TaskIds, key \in PrivateKeys, p \in GasPricePromises :
        sendTxToSmartContract(t, "0x8aD7", key, "updateUser", <<"John", "Doe">>,
                              FullOptions, "Users", p)

SignResume == \E t \in TaskIds, o \in SignOutcomes : sendTxResumeSign(t, o)

\* The caller registers its own callback for each event, at any moment.
EventCallback == [transactionHash |-> JFun(1), receipt |-> JFun(2), error |-> JFun(3)]

NextEvents ==
    \/ BootFallback \/ RegisterUsers
    \/ \E e \in Events : on(e, EventCallback[e], 0)
    \/ SubmitFull \/ SignResume
    \/ Transport

SpecEvents == Init /\ [][NextEvents]_vars

\* The usage of the README: each submission's callbacks are chained on the
\* handle it returned, submission h chaining its own callback JFun(h).
SubmitProvider ==
    \E t \in TaskIds, p \in GasPricePromises :
        sendTxToSmartContract(t, "0x8aD7", Null, "updateUser", <<"John", "Doe">>,
                              FullOptions, "Users", p)

NextChain ==
    \/ BootFallback \/ RegisterUsers
    \/ \E e \in Events, h \in 1 .. MaxTx : on(e, JFun(h), h)
    \/ SubmitProvider
    \/ Transport

SpecChain == Init /\ [][NextChain]_vars

(***************************************************************************)
(* Properties of the registry (SpecRegistry, SpecCall).                    *)
(***************************************************************************)
\* C1: after any sequence of loadContact calls, every name that was passed
\* to loadContact has, in contractDetails, the address and the ABI of the
\* latest loadContact for it and, in contracts, the callable built from that
\* address and ABI; a name never passed has neither (so registering one name
\* leaves the others as they were).
C1_LatestRegistration ==
    \A n \in Names :
        IF lastLoad[n] = Undefined
        THEN contractDetail(n) = Undefined /\ contract(n) = Undefined
        ELSE /\ contractDetail(n) # Undefined
             /\ contractDetail(n).address = lastLoad[n].address
             /\ contractDetail(n).abi = lastLoad[n].abi
             /\ contract(n) = NewContract(lastLoad[n].abi, lastLoad[n].address)

\* The index of the first ABI entry named method, 0 when there is none.
FirstEntry(abi, method) ==
    LET idx == {i \in 1 .. Len(abi.v) : abi.v[i].name = method}
    IN  IF idx = {} THEN 0 ELSE CHOOSE i \in idx : \A j \in idx : i <= j

HasAbi(n) ==
    /\ contractDetail(n) # Undefined
    /\ contractDetail(n).abi \notin {Null, Undefined}

ClaimedArguments(param) ==
    IF param = Null THEN <<>>
    ELSE IF param.t = "array" THEN param.v ELSE <<param>>

\* C10: call(method, param, name) on a registered contract that has the method
\* invokes it with no argument when param is null, with the elements of param
\* when param is an array, and with param as the one argument otherwise (a
\* scalar, and a keyed structure too); what the underlying call yields, result
\* or failure, is what call yields.
C10_CallArguments ==
    (done.op = "call" /\ Truthy(done.obs.callable)
        /\ HasMethod(done.obs.callable, done.in.method))
    => /\ done.obs.invoked
       /\ done.obs.args = ClaimedArguments(done.in.param)
       /\ done.err = done.obs.outcome.err
       /\ done.ret = done.obs.outcome.ret

(***************************************************************************)
(* Properties of a submission's preconditions and fields                   *)
(* (SpecUnregistered, SpecFields).                                         *)
(***************************************************************************)
NotRegisteredError == JStr("Contract address not found!")

\* C2: sendTxToSmartContract for a name no loadContact was ever called with
\* throws the contract-not-registered error having issued no transport
\* request, and changes nothing: no call is left suspended, no transaction is
\* handed to the transport (so no listener is attached), no callback runs, and
\* the registry, the gas cache, the cached account and the callback table are
\* as before.
C2_UnregisteredSubmit ==
    [][ \A n \in Names :
          lastLoad[n] = Undefined =>
            \A t \in TaskIds, key \in PrivateKeys, o \in OptionSets :
                sendTxToSmartContract(t, "0x8aD7", key, "updateUser",
                                      <<"John", "Doe">>, o, n, Price1000)
                => /\ done'.op = SendOp
                   /\ done'.err = NotRegisteredError
                   /\ done'.reqs = <<>>
                   /\ UNCHANGED <<session, tasks, txs, fired, invoked, chained>> ]_vars

\* A submission for a name never registered has thrown, on a connected
\* explorer that has another contract registered, a gas limit cached, a
\* callback registered and a transaction submitted.
C2_Witness ==
    /\ done.op = SendOp
    /\ done.err = NotRegisteredError
    /\ lastLoad[done.in.name] = Undefined
    /\ web3 # Null
    /\ \E n \in Names : contract(n) # Undefined
    /\ defaultOptions.gasLimit # Null
    /\ \E e \in Events : callbacks[e] # Undefined
    /\ Len(txs) > 0

Count(reqs, r) == Len(SelectSeq(reqs, LAMBDA x : x = r))

\* The base fields of the submission in done were built.
FieldsBuilt ==
    /\ done.op = SendOp
    /\ \E i \in 1 .. Len(done.reqs) : done.reqs[i] \in {"send", "signTransaction"}

\* C6 as stated: a submission whose options carry no gasPrice (gasLimit) and
\* that is made with the default gas price (gas limit) cached issues no
\* gas-price (latest-block) query.
C6_AsClaimed ==
    done.op = SendOp =>
        /\ (~Truthy(done.in.options.gasPrice) /\ done.obs.cached.gasPrice)
                => Count(done.reqs, "getGasPrice") = 0
        /\ (~Truthy(done.in.options.gasLimit) /\ done.obs.cached.gasLimit)
                => Count(done.reqs, "getBlock") = 0

\* C6, amended: a submission whose base fields were built has issued exactly
\* one gas-price query when options carry no gasPrice and exactly one
\* latest-block query when options carry no gasLimit, whether or not the
\* defaults were cached; it has issued none for a field options supply.
C6_AlwaysQueries ==
    FieldsBuilt =>
        /\ Count(done.reqs, "getGasPrice")
                = (IF Truthy(done.in.options.gasPrice) THEN 0 ELSE 1)
        /\ Count(done.reqs, "getBlock")
                = (IF Truthy(done.in.options.gasLimit) THEN 0 ELSE 1)

\* A submission without options was broadcast, made when both defaults were
\* cached, and it queried both.
C6_Witness ==
    /\ FieldsBuilt
    /\ done.err = NoError
    /\ done.in.options = NoOptions
    /\ done.obs.cached.gasPrice
    /\ done.obs.cached.gasLimit
    /\ Count(done.reqs, "getGasPrice") = 1
    /\ Count(done.reqs, "getBlock") = 1

(***************************************************************************)
(* Properties of the gas defaults (SpecGas).                               *)
(***************************************************************************)
\* C4: getGasLimit(true) with a gas limit cached returns it at once, issuing
\* no block query and leaving the cache alone; getGasLimit(false) on a
\* connected explorer issues a latest-block query whatever is cached, and when
\* that query returns a block the call returns that block's gas limit and the
\* cache holds it.
C4_GasLimitCache ==
    [][ \A t \in TaskIds :
          /\ (getGasLimit(t, TRUE) /\ defaultOptions.gasLimit # Null)
                => /\ done'.op = "getGasLimit"
                   /\ done'.err = NoError
                   /\ done'.ret = defaultOptions.gasLimit
                   /\ done'.reqs = <<>>
                   /\ UNCHANGED <<tasks, defaultOptions>>
          /\ (getGasLimit(t, FALSE) /\ web3 # Null)
                => /\ tasks'[t] # Idle
                   /\ tasks'[t].op = "getGasLimit"
                   /\ tasks'[t].reqs = <<"getBlock">>
          /\ \A o \in BlockOutcomes :
                (getGasLimitResume(t, o) /\ o.err = NoError /\ o.block # Null)
                => /\ done'.ret = o.block.gasLimit
                   /\ done'.reqs = <<"getBlock">>
                   /\ defaultOptions'.gasLimit = o.block.gasLimit ]_vars

\* A cached read has returned the gas limit an earlier query cached.
C4_Witness ==
    /\ done.op = "getGasLimit"
    /\ done.in.fromCache
    /\ done.err = NoError
    /\ done.reqs = <<>>
    /\ done.ret = defaultOptions.gasLimit
    /\ done.ret.t = "number"

\* C5: once a getGasPrice call that issued a gas-price query has completed,
\* the cache holds the resolved gas-price value the query returned, which is
\* the value the call returned; a call issues at most one query.
C5_GasPriceCache ==
    (done.op = "getGasPrice" /\ done.err = NoError)
    => /\ Len(done.reqs) <= 1
       /\ done.reqs = <<"getGasPrice">> => done.obs.post.gasPrice = done.ret

(***************************************************************************)
(* Properties of the callback table and of the lifecycle events            *)
(* (SpecObserver, SpecEvents, SpecChain).                                  *)
(***************************************************************************)
\* C7: on stores a callback only for an event name that has none, so the one
\* stored is the first registered and no step ever replaces it; emit runs the
\* stored callback once, with the data given, and nothing else, and does
\* nothing when none is stored.
C7_FirstCallbackWins ==
    [][ /\ \A e \in Events :
              callbacks[e] # Undefined => callbacks'[e] = callbacks[e]
        /\ \A e \in Events, cb \in Callbacks :
              on(e, cb, 0) =>
                /\ callbacks'[e] = (IF callbacks[e] = Undefined THEN cb ELSE callbacks[e])
                /\ \A f \in Events \ {e} : callbacks'[f] = callbacks[f]
                /\ invoked' = invoked
        /\ \A e \in Events :
              emit(e, JStr("payload")) =>
                /\ invoked' = (IF callbacks[e] = Undefined THEN invoked
                               ELSE [cb |-> callbacks[e], data |-> JStr("payload"),
                                     n |-> invoked.n + 1])
                /\ callbacks' = callbacks ]_vars

\* A second registration for an event was ignored, and emit ran the first.
C7_Witness ==
    /\ done.op = "on"
    /\ callbacks[done.in.eventName] # Undefined
    /\ callbacks[done.in.eventName] # done.in.callback
    /\ fired.src = 0
    /\ fired.event = done.in.eventName
    /\ invoked = [cb |-> callbacks[done.in.eventName], data |-> fired.data, n |-> 1]

\* C8: every lifecycle event the transport delivers for a submitted
\* transaction, on either signing path, is forwarded in the step that
\* delivers it: the callback registered under the event's name at that moment
\* runs once with the event's payload, and no callback runs when none is
\* registered; so the callbacks run in the order of delivery.
C8_EventsForwarded ==
    [][ \A i \in 1 .. MaxTx, e \in Events :
          deliver(i, e) =>
            /\ txs[i].path \in {"signed", "provider"}
            /\ invoked' = (IF callbacks[e] = Undefined THEN invoked
                           ELSE [cb |-> callbacks[e], data |-> Payload(i, e),
                                 n |-> invoked.n + 1]) ]_vars

\* A self-signed transaction's receipt reached the receipt callback, after
\* its transactionHash reached the transactionHash callback.
C8_Witness ==
    /\ fired.src >= 1
    /\ fired.event = "receipt"
    /\ txs[fired.src].path = "signed"
    /\ callbacks["transactionHash"] # Undefined
    /\ invoked = [cb |-> callbacks["receipt"], data |-> fired.data, n |-> 2]

\* C9: an event of a submission, fired after a callback for it was chained on
\* the handle that submission returned, runs that callback.
C9_ChainedCallbacksReceive ==
    (fired.src >= 1 /\ fired.chainedAt # Undefined)
    => /\ invoked.data = fired.data
       /\ invoked.cb = fired.chainedAt

(***************************************************************************)
(* Properties of the registration from a compiled artifact (SpecArtifact). *)
(***************************************************************************)
NextArtifact == BootFallback \/ RegisterUsers \/ LoadArtifact

SpecArtifact == Init /\ [][NextArtifact]_vars

\* C11: when the network id the transport answers has no entry in the
\* artifact's networks map, loadContractFromJson throws the network-mismatch
\* error and contractDetails and contracts are as before; when it has one, the
\* name given is registered with that network's deployment address and the
\* artifact's ABI, in contractDetails and as a callable, and the other names
\* are as before.
C11_ArtifactRegistration ==
    [][ \A t \in TaskIds, o \in NetIdOutcomes :
          (loadContractFromJsonResume(t, o) /\ o.err = NoError) =>
            LET json == tasks[t].in.json
                name == tasks[t].in.name
            IN  IF o.val \notin DOMAIN json.networks
                THEN /\ done'.op = "loadContractFromJson"
                     /\ done'.err = NetworkMismatch(o.val)
                     /\ UNCHANGED <<contracts, contractDetails>>
                ELSE /\ done'.err = NoError
                     /\ contractDetails'[name] =
                            Detail(json.networks[o.val].address, json.abi, name)
                     /\ contracts'[name] =
                            NewContract(json.abi, json.networks[o.val].address)
                     /\ \A m \in Names \ {name} :
                            /\ contractDetails'[m] = contractDetails[m]
                            /\ contracts'[m] = contracts[m] ]_vars

\* loadContractFromJson has thrown the mismatch for a name that an earlier
\* registration holds, and that registration is still there.
C11_Witness ==
    /\ done.op = "loadContractFromJson"
    /\ done.reqs = <<"getId">>
    /\ done.err = NetworkMismatch(done.obs.netId)
    /\ contract(done.in.name) # Undefined
    /\ contractDetail(done.in.name) # Undefined

(***************************************************************************)
(* Properties of an explorer that is not connected (SpecUnconnected).      *)
(***************************************************************************)
Unconnected == web3 = Null

\* The operations that need the transport, called before bootWeb3; on() is
\* there so that the callback table has something to lose.
UnconnectedCall ==
    \/ Unconnected /\ Register
    \/ Unconnected /\ \E t \in TaskIds, j \in Artifacts, n \in Names :
            loadContractFromJson(t, j, n)
    \/ Unconnected /\ \E m \in {"getUser", "missing"}, n \in Names, o \in CallOutcomes :
            call(m, Null, n, o)
    \/ Unconnected /\ \E t \in TaskIds : getNetworkId(t)
    \/ Unconnected /\ \E t \in TaskIds, b \in BlockNumbers : getBlock(t, b)
    \/ Unconnected /\ \E t \in TaskIds : getBlockNumber(t)
    \/ Unconnected /\ \E t \in TaskIds : getUserAccount(t)
    \/ Unconnected /\ \E t \in TaskIds, c \in BOOLEAN : getGasLimit(t, c)
    \/ Unconnected /\ \E t \in TaskIds, c \in BOOLEAN : getGasPrice(t, c, Price1000)
    \/ Unconnected /\ \E t \in TaskIds, key \in PrivateKeys,
                          o \in {NoOptions, FullOptions}, n \in Names :
            sendTxToSmartContract(t, "0x8aD7", key, "updateUser", <<"John", "Doe">>,
                                  o, n, Price1000)

NextUnconnected ==
    \/ UnconnectedCall
    \/ Unconnected /\ \E e \in Events : on(e, JFun(1), 0)
    \/ BootFallback

SpecUnconnected == Init /\ [][NextUnconnected]_vars

\* C12: a step in which an operation that needs the transport is called on an
\* explorer whose handle is not set ends with that call having thrown, and
\* leaves the registry, the gas cache, the cached account, the callback table
\* and the handle as they were.
C12_UnconnectedFails ==
    [][ UnconnectedCall
        => /\ done'.err # NoError
           /\ UNCHANGED session ]_vars

(***************************************************************************)
(* Properties of the connection (SpecBoot).                                *)
(***************************************************************************)
\* bootWeb3 in every environment, calls overlapping, on an explorer that may
\* hold registrations.
NextBoot == Boot \/ Register

SpecBoot == Init /\ [][NextBoot]_vars

UserRejected == JErr("UserRejectedRequest")

\* C13: when the wallet rejects the authorization request, bootWeb3 throws
\* that rejection and the handle keeps the value it had; no step changes the
\* handle except one in which a bootWeb3 call completes without error.
C13_RejectionKeepsHandle ==
    [][ /\ \A t \in TaskIds :
              bootWeb3Resume(t, FALSE) =>
                /\ done'.op = "bootWeb3"
                /\ done'.err = UserRejected
                /\ web3' = web3
        /\ web3' # web3 => (done'.op = "bootWeb3" /\ done'.err = NoError) ]_vars

\* An explorer connected earlier had a later bootWeb3 rejected by the wallet,
\* and is still connected.
C13_Witness ==
    /\ done.op = "bootWeb3"
    /\ done.in.window = "ethereum"
    /\ done.err = UserRejected
    /\ web3 # Null

(***************************************************************************)
(* Properties of the cached account (SpecAccount).                         *)
(***************************************************************************)
\* getUserAccount calls, overlapping or not, on an explorer that connects.
NextAccount == Boot \/ Account

SpecAccount == Init /\ [][NextAccount]_vars

\* C14: a getUserAccount call made when an account is cached returns that
\* account and issues no query; an account, once cached, stays the cached
\* account in every later step (so every later call returns that same one,
\* whatever the provider's list has become); and the account a query caches
\* is the first of the list the query returned.
C14_AccountCachedOnce ==
    [][ /\ \A t \in TaskIds :
              (getUserAccount(t) /\ Truthy(userAccount)) =>
                /\ done'.op = "getUserAccount"
                /\ done'.err = NoError
                /\ done'.ret = userAccount
                /\ done'.reqs = <<>>
                /\ tasks' = tasks
        /\ Truthy(userAccount) => userAccount' = userAccount
        /\ \A t \in TaskIds, o \in AccountsOutcomes :
              (getUserAccountResume(t, o) /\ o.err = NoError /\ Len(o.val) > 0) =>
                /\ userAccount' = o.val[1]
                /\ done'.ret = o.val[1] ]_vars

(***************************************************************************)
(* Properties of what a submission returns (SpecEvents).                   *)
(***************************************************************************)
\* C15: the step that hands a transaction to the transport, on either path,
\* ends the call: it returns the explorer itself without error, with no
\* lifecycle event delivered yet and no callback run; a lifecycle event
\* delivered later, an error included, neither throws from nor returns to any
\* call, and an error runs the callback registered for the error event, with
\* the failure.
C15_FailureAfterBroadcast ==
    [][ /\ Len(txs') > Len(txs) =>
              /\ done'.op = SendOp
              /\ done'.err = NoError
              /\ done'.ret = This
              /\ txs'[Len(txs')].path \in {"signed", "provider"}
              /\ txs'[Len(txs')].st = "sent"
              /\ UNCHANGED <<fired, invoked>>
        /\ \A i \in 1 .. MaxTx, e \in Events :
              deliver(i, e) =>
                /\ UNCHANGED <<done, tasks>>
                /\ (e = "error" /\ callbacks["error"] # Undefined) =>
                      /\ invoked'.cb = callbacks["error"]
                      /\ invoked'.data = Payload(i, "error") ]_vars

\* The submission made last returned the explorer, and afterwards its
\* transaction failed: the failure went to the error callback.
C15_Witness ==
    /\ done.op = SendOp
    /\ done.err = NoError
    /\ done.ret = This
    /\ fired.src = done.obs.handle
    /\ fired.event = "error"
    /\ txs[fired.src].st = "error"
    /\ invoked.cb = EventCallback["error"]
    /\ invoked.data = fired.data

(***************************************************************************)
(* Properties of the signing paths (SpecFields).                           *)
(***************************************************************************)
\* The steps of the two signing paths among the requests of a call, in the
\* order they were made.
PathSteps(reqs) ==
    SelectSeq(reqs, LAMBDA x : x \in {"encodeABI", "signTransaction",
                                      "sendSignedTransaction", "send"})

SignedPath == <<"encodeABI", "signTransaction", "sendSignedTransaction">>

ProviderPath == <<"send">>

PassedCheck == done.op = SendOp /\ done.err # NotRegisteredError

\* C16 as stated: every call that passed the registration check has run
\* exactly one path: with a key, ABI-encode, sign, raw broadcast in that order
\* and no provider send; without a key, the provider send and nothing else.
C16_AsClaimed ==
    PassedCheck =>
        PathSteps(done.reqs) = (IF Truthy(done.in.key) THEN SignedPath ELSE ProviderPath)

\* C16, amended: a call that passed the registration check has run steps of
\* the path its key selects only, in that path's order: with a key a prefix of
\* ABI-encode, sign, raw broadcast, and never the provider send; without a
\* key at most the provider send.  It has run the whole path exactly when it
\* returned without error, and then the transaction was sent on that path,
\* carrying the encoded call as data on the signed path only.
C16_OnePath ==
    PassedCheck =>
        LET steps == PathSteps(done.reqs)
            path == IF Truthy(done.in.key) THEN SignedPath ELSE ProviderPath
        IN  /\ Len(steps) <= Len(path)
            /\ steps = SubSeq(path, 1, Len(steps))
            /\ (done.err = NoError) <=> (steps = path)
            /\ done.err = NoError =>
                  /\ done.obs.path = (IF Truthy(done.in.key) THEN "signed" ELSE "provider")
                  /\ done.obs.tx.data = (IF Truthy(done.in.key)
                                         THEN encodeABI(done.in.fnc, done.in.data)
                                         ELSE Absent)

\* A call with a key has encoded, signed and broadcast; the transaction it
\* sent is on the signed path.
C16_Witness ==
    /\ PassedCheck
    /\ Truthy(done.in.key)
    /\ done.err = NoError
    /\ PathSteps(done.reqs) = SignedPath
    /\ txs[done.obs.handle].path = "signed"

(***************************************************************************)
(* Properties of events that find no callback (SpecEvents).                *)
(***************************************************************************)
\* C17: a lifecycle event delivered when no callback is registered under its
\* name runs no callback, and registering a callback afterwards runs none
\* either: nothing is queued or replayed.  (The witness is the interleaving
\* in which a receipt fired and the callback registered later never ran.)
C17_EventsNotQueued ==
    [][ /\ \A i \in 1 .. MaxTx, e \in Events :
              (deliver(i, e) /\ callbacks[e] = Undefined) => invoked' = invoked
        /\ \A e \in Events :
              on(e, EventCallback[e], 0) => UNCHANGED <<invoked, fired, txs>> ]_vars

\* A transaction's receipt fired when no receipt callback was registered; the
\* caller registered one afterwards; no callback has ever run, and the
\* transaction, which is complete, will fire nothing more.
C17_Witness ==
    /\ fired.src >= 1
    /\ fired.event = "receipt"
    /\ fired.cbAt = Undefined
    /\ txs[fired.src].st = "receipt"
    /\ done.op = "on"
    /\ done.in.eventName = "receipt"
    /\ callbacks["receipt"] = EventCallback["receipt"]
    /\ invoked.n = 0

(***************************************************************************)
(* Properties of the fields options supply (SpecFields).                   *)
(***************************************************************************)
\* C18: the transaction of a submission that was sent carries, for each of
\* nonce, gasPrice and gasLimit that options supply (a nonce of 0 included),
\* exactly the supplied value, and the call issued no query for that field;
\* it carries options.value when that is set and has no value field when it
\* is not.
C18_SuppliedFields ==
    (done.op = SendOp /\ done.err = NoError) =>
        LET o == done.in.options
            tx == done.obs.tx
        IN  /\ o.nonce # Undefined =>
                  /\ tx.nonce = o.nonce
                  /\ Count(done.reqs, "getTransactionCount") = 0
            /\ o.gasPrice # Undefined =>
                  /\ tx.gasPrice = o.gasPrice
                  /\ Count(done.reqs, "getGasPrice") = 0
            /\ o.gasLimit # Undefined =>
                  /\ tx.gasLimit = o.gasLimit
                  /\ Count(done.reqs, "getBlock") = 0
            /\ tx.value = (IF o.value # Undefined THEN o.value ELSE Absent)


(***************************************************************************)
(* Consistency of the two registry maps (SpecRegistry).                    *)
(***************************************************************************)
\* C19: in every reachable state a name has an entry in contractDetails if
\* and only if it has a callable in contracts, also after a loadContact call
\* that failed.
C19_RegistryConsistent ==
    \A n \in Names : (contractDetail(n) # Undefined) <=> (contract(n) # Undefined)


(***************************************************************************)
(* The gas cache after a failed query (SpecGas).                           *)
(***************************************************************************)
\* C20: a gas-price or latest-block query that fails leaves the gas cache
\* as it was, so the cache never holds a failure, and a getGasPrice or
\* getGasLimit call that ends with the failure of a query issued that query
\* itself: a cached read never hands back an earlier failure.
C20_FailureNotCached ==
    /\ \A f \in {"gasPrice", "gasLimit"} :
          ~(/\ defaultOptions[f].t = "promise"
            /\ defaultOptions[f].st = "rejected")
    /\ (done.op \in {"getGasPrice", "getGasLimit"} /\ done.err = JErr("rpc"))
          => Len(done.reqs) = 1

====
